---- MODULE Spec2Model ----
(***************************************************************************)
(* Model of src/tools/launcher/util/launcher_util.{h,cc}: the helper        *)
(* routines of the Windows launcher.  Strings are sequences of one-         *)
(* character strings; size_t values are four 16-bit limbs (least            *)
(* significant first) so that arithmetic wraps modulo 2^64 as in the code;  *)
(* DWORD attribute words are sets of bit positions.                         *)
(***************************************************************************)
EXTENDS Integers, Sequences, FiniteSets, TLC

VARIABLES
  pc,            \* which harness is running and how far it got
  argument,      \* GetEscapedArgument: the argument passed
  other,         \* GetEscapedArgument: a second argument (a second call)
  escaped,       \* GetEscapedArgument(argument)
  escapedOther,  \* GetEscapedArgument(other)
  argv,          \* arguments the child's C runtime splits off the command line
  binary,        \* GetBinaryPathWith(out)Extension: the path passed
  binOut,        \* results of the calls made on binary, by call name
  environ,       \* the process environment block: name -> stored value
  fs,            \* the file system: path -> entry
  errStream,     \* what the process wrote to stderr
  exitCode,      \* Running, or the status the process exited with
  prevCall,      \* the call before the last one
  lastCall       \* the last call made and what it returned

vars == <<pc, argument, other, escaped, escapedOther, argv, binary, binOut,
          environ, fs, errStream, exitCode, prevCall, lastCall>>

escVars == <<argument, other, escaped, escapedOther, argv>>
binVars == <<binary, binOut>>
sysVars == <<environ, fs, errStream, exitCode, prevCall, lastCall>>

-----------------------------------------------------------------------------
(* Bounds of the model *)

MaxArgLen == 4      \* longest argument escaped on its own
MaxPairLen == 3     \* longest argument in a pair of arguments
MaxPieces == 3      \* most pieces a binary path is put together from
MaxChunks == 1      \* most chunks an environment value is put together from

-----------------------------------------------------------------------------
(* Characters and strings *)

DQUOTE == "\""
BSLASH == "\\"
SPACE == " "
TAB == "\t"
NUL == "NUL"

None == "none"

RECURSIVE Strings(_, _)
Strings(alphabet, n) ==
  IF n = 0 THEN {<<>>}
  ELSE LET shorter == Strings(alphabet, n - 1)
       IN shorter \cup {Append(s, c) : s \in shorter, c \in alphabet}

RECURSIVE Concat(_)
Concat(pieces) ==
  IF pieces = <<>> THEN <<>> ELSE Head(pieces) \o Concat(Tail(pieces))

-----------------------------------------------------------------------------
(* size_t: 64-bit unsigned, as four 16-bit limbs, least significant first *)

Limb == 2 ^ 16

ToSizeT(n) == <<n % Limb, (n \div Limb) % Limb, (n \div Limb) \div Limb, 0>>

npos == <<Limb - 1, Limb - 1, Limb - 1, Limb - 1>>

\* a - b on size_t; a borrow out of the top limb is dropped (modulo 2^64)
SizeSub(a, b) ==
  LET d1 == a[1] - b[1]
      w1 == IF d1 < 0 THEN 1 ELSE 0
      d2 == a[2] - b[2] - w1
      w2 == IF d2 < 0 THEN 1 ELSE 0
      d3 == a[3] - b[3] - w2
      w3 == IF d3 < 0 THEN 1 ELSE 0
      d4 == a[4] - b[4] - w3
      w4 == IF d4 < 0 THEN 1 ELSE 0
  IN <<d1 + w1 * Limb, d2 + w2 * Limb, d3 + w3 * Limb, d4 + w4 * Limb>>

SizeLess(a, b) ==
  \E i \in 1..4 : a[i] < b[i] /\ \A j \in (i + 1)..4 : a[j] = b[j]

SizeLeq(a, b) == a = b \/ SizeLess(a, b)

-----------------------------------------------------------------------------
(* GetEscapedArgument, launcher_util.cc:111-142 *)

HasSpaceAnyWhitespace(s) == \E i \in 1..Len(s) : s[i] \in {SPACE, TAB}

\* argument.find_first_of(' ') != string::npos
HasSpace(s) == \E i \in 1..Len(s) : s[i] = SPACE

EscapeCharSameEscape(ch) ==
  IF ch \in {DQUOTE, BSLASH} THEN <<BSLASH, BSLASH>> ELSE <<ch>>

\* the switch on one character of the loop
EscapeChar(ch) ==
  CASE ch = DQUOTE -> <<BSLASH, DQUOTE>>
    [] ch = BSLASH -> <<BSLASH, BSLASH>>
    [] OTHER -> <<ch>>

\* the while loop, from iterator position it to argument.end()
RECURSIVE EscapeLoop(_, _)
EscapeLoop(arg, it) ==
  IF it > Len(arg) THEN <<>>
  ELSE EscapeChar(arg[it]) \o EscapeLoop(arg, it + 1)

GetEscapedArgument(arg) ==
  LET has_space == HasSpace(arg)
      quote == IF has_space THEN <<DQUOTE>> ELSE <<>>
  IN quote \o EscapeLoop(arg, 1) \o quote

-----------------------------------------------------------------------------
(* The Microsoft C runtime's splitting of a command line into arguments,    *)
(* for the arguments after the program name.                                *)

RECURSIVE BackslashRun(_, _)
BackslashRun(line, i) ==
  IF i <= Len(line) /\ line[i] = BSLASH THEN 1 + BackslashRun(line, i + 1)
  ELSE 0

Backslashes(n) == [k \in 1..n |-> BSLASH]

\* i: next character; cur: the argument being built; started: whether an
\* argument is being built; inQuotes: inside a quoted part
RECURSIVE SplitArgs(_, _, _, _, _)
SplitArgs(line, i, cur, started, inQuotes) ==
  IF i > Len(line) THEN (IF started THEN <<cur>> ELSE <<>>)
  ELSE LET ch == line[i] IN
    IF ch \in {SPACE, TAB} /\ ~inQuotes
    THEN (IF started THEN <<cur>> ELSE <<>>)
           \o SplitArgs(line, i + 1, <<>>, FALSE, FALSE)
    ELSE IF ch = BSLASH
    THEN LET n == BackslashRun(line, i)
             j == i + n
         IN IF j <= Len(line) /\ line[j] = DQUOTE
            THEN IF n % 2 = 0
                 THEN SplitArgs(line, j + 1, cur \o Backslashes(n \div 2),
                                TRUE, ~inQuotes)
                 ELSE SplitArgs(line, j + 1,
                                cur \o Backslashes(n \div 2) \o <<DQUOTE>>,
                                TRUE, inQuotes)
            ELSE SplitArgs(line, j, cur \o Backslashes(n), TRUE, inQuotes)
    ELSE IF ch = DQUOTE
    THEN SplitArgs(line, i + 1, cur, TRUE, ~inQuotes)
    ELSE SplitArgs(line, i + 1, Append(cur, ch), TRUE, inQuotes)

ProgramName == <<"p", "r", "o", "g">>

\* argv[1..] of the command line `prog <rest>`
CommandLineToArgv(rest) ==
  SplitArgs(ProgramName \o <<SPACE>> \o rest, Len(ProgramName) + 1,
            <<>>, FALSE, FALSE)

-----------------------------------------------------------------------------
(* GetBinaryPathWithoutExtension / GetBinaryPathWithExtension,              *)
(* launcher_util.cc:100-109                                                 *)

DotExe == <<".", "e", "x", "e">>

\* std::string::find(pat, pos): the lowest xpos >= pos with
\* xpos + pat.size() <= s.size() at which pat occurs, else npos
Find(s, pat, pos) ==
  LET hits == {x \in 0..(Len(s) - Len(pat)) :
                 /\ SizeLeq(pos, ToSizeT(x))
                 /\ SubSeq(s, x + 1, x + Len(pat)) = pat}
  IN IF hits = {} THEN npos
     ELSE ToSizeT(CHOOSE x \in hits : \A y \in hits : x <= y)

\* std::string::substr(0, count): the first min(count, size) characters
SubstrFromStart(s, count) ==
  IF SizeLeq(ToSizeT(Len(s)), count) THEN s
  ELSE SubSeq(s, 1, count[1] + count[2] * Limb)

\* a - b that stops at 0 instead of wrapping
SizeSubSaturating(a, b) == IF SizeLess(a, b) THEN ToSizeT(0) ELSE SizeSub(a, b)

SuffixPosSaturating(bin) == SizeSubSaturating(ToSizeT(Len(bin)), ToSizeT(4))

\* the position binary.size() - 4 passed to find
SuffixPos(bin) == SizeSub(ToSizeT(Len(bin)), ToSizeT(4))

\* binary.find(".exe", binary.size() - 4)

SuffixSearch(bin) == Find(bin, DotExe, SuffixPos(bin))

WithoutExtensionAnyCase(bin) ==
  IF Len(bin) >= 4
     /\ SubSeq(bin, Len(bin) - 3, Len(bin)) \in {DotExe, <<".", "E", "X", "E">>}
  THEN SubSeq(bin, 1, Len(bin) - 4)
  ELSE bin

GetBinaryPathWithoutExtension(bin) ==
  IF SuffixSearch(bin) # npos
  THEN SubstrFromStart(bin, SizeSub(ToSizeT(Len(bin)), ToSizeT(4)))
  ELSE bin

WithExtensionNoStrip(bin) == bin \o DotExe

GetBinaryPathWithExtension(bin) == GetBinaryPathWithoutExtension(bin) \o DotExe

-----------------------------------------------------------------------------
(* die / PrintError, launcher_util.cc:55-72.  A write to stderr is a record *)
(* of the format string and its argument.                                   *)

Running == 0 - 1

Written(format, arg) == [fmt |-> format, arg |-> arg]

\* fputs("LAUNCHER ERROR: "), vfprintf(format, ap), fputc('\n'); no exit
PrintError(format, arg) ==
  [out |-> <<Written("LAUNCHER ERROR: ", ""), Written(format, arg),
             Written("\n", "")>>,
   exit |-> Running]

dieWithoutExit(format, arg) == PrintError(format, arg)

\* the same writes, then exit(1)
die(format, arg) ==
  [out |-> <<Written("LAUNCHER ERROR: ", ""), Written(format, arg),
             Written("\n", "")>>,
   exit |-> 1]

-----------------------------------------------------------------------------
(* Path conversion and the file-system helpers, launcher_util.cc:74-98 *)

\* DWORD attribute words, as sets of bit positions
READONLY_BIT == {0}
FILE_ATTRIBUTE_DIRECTORY == {4}
ARCHIVE_BIT == {5}
NORMAL_BIT == {7}
INVALID_FILE_ATTRIBUTES == 0..31

NoEntry == [kind |-> "none", attrs |-> {}]

\* the wide path blaze_util::AsAbsoluteWindowsPath stores on success
WidePath(path) == <<"\\\\?\\", path>>

\* ok: whether blaze_util::AsAbsoluteWindowsPath succeeded on path
AsAbsoluteWindowsPath(path, ok) ==
  IF ~ok
  THEN LET d == die("Couldn't convert %s to absoulte Windows path.", path)
       IN [wpath |-> <<>>, out |-> d.out, exit |-> d.exit]
  ELSE [wpath |-> WidePath(path), out |-> <<>>, exit |-> Running]

\* GetFileAttributesW on the file system fsys
GetFileAttributesW(fsys, wpath) ==
  IF wpath \notin DOMAIN fsys \/ fsys[wpath].kind = "none"
  THEN INVALID_FILE_ATTRIBUTES
  ELSE fsys[wpath].attrs

\* DeleteFileW: removes a non-directory entry that is not read-only
DeleteFileW(fsys, wpath) ==
  IF /\ wpath \in DOMAIN fsys
     /\ fsys[wpath].kind = "file"
     /\ fsys[wpath].attrs \cap READONLY_BIT = {}
  THEN [ok |-> TRUE, fs |-> [fsys EXCEPT ![wpath] = NoEntry]]
  ELSE [ok |-> FALSE, fs |-> fsys]

\* the return expression of DoesFilePathExist
IsFileAttrib(dwAttrib) ==
  /\ dwAttrib # INVALID_FILE_ATTRIBUTES
  /\ dwAttrib \cap FILE_ATTRIBUTE_DIRECTORY = {}

IsDirectoryAttribNoInvalidTest(dwAttrib) ==
  dwAttrib \cap FILE_ATTRIBUTE_DIRECTORY # {}

\* the return expression of DoesDirectoryPathExist
IsDirectoryAttrib(dwAttrib) ==
  /\ dwAttrib # INVALID_FILE_ATTRIBUTES
  /\ dwAttrib \cap FILE_ATTRIBUTE_DIRECTORY # {}

\* What a call of one of the four path functions does: the conversion, then
\* (if the process is still running) the platform call and the return.
PathOps ==
  {"AsAbsoluteWindowsPath", "DoesFilePathExist", "DoesDirectoryPathExist",
   "DeleteFileByPath"}

PathCall(op, path, ok, fsys) ==
  LET c == AsAbsoluteWindowsPath(path, ok)
      base == [op |-> op, path |-> path, converted |-> ok, wrote |-> c.out,
               exit |-> c.exit, issued |-> <<>>, returned |-> FALSE,
               ret |-> FALSE, fs |-> fsys]
  IN IF c.exit # Running THEN base
     ELSE CASE op = "AsAbsoluteWindowsPath" ->
                 [base EXCEPT !.returned = TRUE]
            [] op = "DoesFilePathExist" ->
                 [base EXCEPT
                    !.issued = <<<<"GetFileAttributesW", c.wpath>>>>,
                    !.returned = TRUE,
                    !.ret = IsFileAttrib(GetFileAttributesW(fsys, c.wpath))]
            [] op = "DoesDirectoryPathExist" ->
                 [base EXCEPT
                    !.issued = <<<<"GetFileAttributesW", c.wpath>>>>,
                    !.returned = TRUE,
                    !.ret = IsDirectoryAttrib(GetFileAttributesW(fsys, c.wpath))]
            [] op = "DeleteFileByPath" ->
                 [base EXCEPT
                    !.issued = <<<<"DeleteFileW", c.wpath>>>>,
                    !.returned = TRUE,
                    !.ret = DeleteFileW(fsys, c.wpath).ok,
                    !.fs = DeleteFileW(fsys, c.wpath).fs]

-----------------------------------------------------------------------------
(* GetEnv / SetEnv, launcher_util.cc:144-159.  A value is a sequence of     *)
(* chunks <<character, count>>, so that values as long as the buffer can    *)
(* be written down.                                                         *)

BUFFER_SIZE == 32767

EnvNames == {"TMP", "JAVA_HOME"}

EnvChunks ==
  {<<"a", 1>>, <<NUL, 1>>, <<"a", BUFFER_SIZE - 1>>, <<"a", BUFFER_SIZE>>}

RECURSIVE ValueLen(_)
ValueLen(v) == IF v = <<>> THEN 0 ELSE Head(v)[2] + ValueLen(Tail(v))

\* c_str() as the platform reads it: the characters before the first NUL
RECURSIVE CStr(_)
CStr(v) ==
  IF v = <<>> \/ Head(v)[1] = NUL THEN <<>> ELSE <<Head(v)>> \o CStr(Tail(v))

Unset == [set |-> FALSE, val |-> <<>>]

\* GetEnvironmentVariableA(name, buffer, size): 0 when the variable is
\* unset; the length stored when value and terminator fit in size
\* characters; otherwise the size required, the buffer left as it was
GetEnvironmentVariableA(block, name, size) ==
  LET e == block[name]
  IN IF ~e.set THEN [ret |-> 0, stored |-> FALSE, buffer |-> <<>>]
     ELSE IF ValueLen(e.val) + 1 <= size
     THEN [ret |-> ValueLen(e.val), stored |-> TRUE, buffer |-> e.val]
     ELSE [ret |-> ValueLen(e.val) + 1, stored |-> FALSE, buffer |-> <<>>]

GetEnvTrueOnEmpty(block, name, garbage) ==
  LET r == GetEnvironmentVariableA(block, name, BUFFER_SIZE)
  IN IF ~block[name].set
     THEN [ret |-> FALSE, assigned |-> FALSE, value |-> <<>>]
     ELSE [ret |-> TRUE, assigned |-> TRUE,
           value |-> IF r.stored THEN r.buffer ELSE garbage]

\* GetEnv(env_name, value): garbage is what the uninitialised stack buffer
\* holds when the platform call did not write it
GetEnv(block, name, garbage) ==
  LET r == GetEnvironmentVariableA(block, name, BUFFER_SIZE)
  IN IF r.ret = 0
     THEN [ret |-> FALSE, assigned |-> FALSE, value |-> <<>>]
     ELSE [ret |-> TRUE, assigned |-> TRUE,
           value |-> IF r.stored THEN r.buffer ELSE garbage]

\* SetEnvironmentVariableA(name, value.c_str()); accepted: whether the
\* platform took the value
SetEnv(block, name, value, accepted) ==
  IF accepted
  THEN [ret |-> TRUE,
        block |-> [block EXCEPT ![name] = [set |-> TRUE, val |-> CStr(value)]]]
  ELSE [ret |-> FALSE, block |-> block]

-----------------------------------------------------------------------------
(* Idle values of the variables a harness does not use *)

NoCall == [op |-> None]

EscIdle ==
  /\ argument = <<>>
  /\ other = <<>>
  /\ escaped = <<>>
  /\ escapedOther = <<>>
  /\ argv = <<>>

NotCalled == [done |-> FALSE, val |-> <<>>, pos |-> ToSizeT(0), found |-> npos]

BinCalls == {"without", "with", "withoutOfWith", "withOfWith"}

BinIdle ==
  /\ binary = <<>>
  /\ binOut = [c \in BinCalls |-> NotCalled]

SysIdle ==
  /\ environ = [n \in EnvNames |-> Unset]
  /\ fs = <<>>
  /\ errStream = <<>>
  /\ exitCode = Running
  /\ prevCall = NoCall
  /\ lastCall = NoCall

-----------------------------------------------------------------------------
(* Escaping one argument and handing it to a child process *)

ArgChars == {"a", SPACE, TAB, DQUOTE, BSLASH}

InitEsc ==
  /\ pc = "esc.start"
  /\ argument \in Strings(ArgChars, MaxArgLen)
  /\ other = <<>>
  /\ escaped = <<>>
  /\ escapedOther = <<>>
  /\ argv = <<>>
  /\ BinIdle
  /\ SysIdle

\* the launcher escapes the argument for the child's command line
EscapeArgument ==
  /\ pc = "esc.start"
  /\ escaped' = GetEscapedArgument(argument)
  /\ pc' = "esc.escaped"
  /\ UNCHANGED <<argument, other, escapedOther, argv, binVars, sysVars>>

\* the child's C runtime splits `prog <escaped>` back into arguments
ChildSplitsCommandLine ==
  /\ pc = "esc.escaped"
  /\ argv' = CommandLineToArgv(escaped)
  /\ pc' = "esc.split"
  /\ UNCHANGED <<argument, other, escaped, escapedOther, binVars, sysVars>>

NextEsc == EscapeArgument \/ ChildSplitsCommandLine

SpecEsc == InitEsc /\ [][NextEsc]_vars

(* Escaping two arguments *)

InitPair ==
  /\ pc = "pair.start"
  /\ argument \in Strings(ArgChars, MaxPairLen)
  /\ other \in Strings(ArgChars, MaxPairLen)
  /\ escaped = <<>>
  /\ escapedOther = <<>>
  /\ argv = <<>>
  /\ BinIdle
  /\ SysIdle

EscapePair ==
  /\ pc = "pair.start"
  /\ escaped' = GetEscapedArgument(argument)
  /\ escapedOther' = GetEscapedArgument(other)
  /\ pc' = "pair.escaped"
  /\ UNCHANGED <<argument, other, argv, binVars, sysVars>>

NextPair == EscapePair

SpecPair == InitPair /\ [][NextPair]_vars

-----------------------------------------------------------------------------
(* Adding and stripping the executable extension *)

PathPieces ==
  {<<"a">>, <<".">>, <<"e">>, <<"x">>, DotExe, <<".", "E", "X", "E">>}

BinaryPaths == {Concat(ps) : ps \in Strings(PathPieces, MaxPieces)}

InitBin ==
  /\ pc = "bin"
  /\ binary \in BinaryPaths
  /\ binOut = [c \in BinCalls |-> NotCalled]
  /\ EscIdle
  /\ SysIdle

Called(call, input, val) ==
  [binOut EXCEPT ![call] = [done |-> TRUE, val |-> val,
                            pos |-> SuffixPos(input),
                            found |-> SuffixSearch(input)]]

CallWithout ==
  /\ pc = "bin"
  /\ ~binOut["without"].done
  /\ binOut' = Called("without", binary, GetBinaryPathWithoutExtension(binary))
  /\ UNCHANGED <<pc, binary, escVars, sysVars>>

CallWith ==
  /\ pc = "bin"
  /\ ~binOut["with"].done
  /\ binOut' = Called("with", binary, GetBinaryPathWithExtension(binary))
  /\ UNCHANGED <<pc, binary, escVars, sysVars>>

CallWithoutOfWith ==
  /\ pc = "bin"
  /\ binOut["with"].done
  /\ ~binOut["withoutOfWith"].done
  /\ binOut' = Called("withoutOfWith", binOut["with"].val,
                      GetBinaryPathWithoutExtension(binOut["with"].val))
  /\ UNCHANGED <<pc, binary, escVars, sysVars>>

CallWithOfWith ==
  /\ pc = "bin"
  /\ binOut["with"].done
  /\ ~binOut["withOfWith"].done
  /\ binOut' = Called("withOfWith", binOut["with"].val,
                      GetBinaryPathWithExtension(binOut["with"].val))
  /\ UNCHANGED <<pc, binary, escVars, sysVars>>

NextBin == CallWithout \/ CallWith \/ CallWithoutOfWith \/ CallWithOfWith

SpecBin == InitBin /\ [][NextBin]_vars

-----------------------------------------------------------------------------
(* The launcher reading and writing its environment *)

EnvValues == Strings(EnvChunks, MaxChunks)

StackGarbage == {CStr(v) : v \in EnvValues}

InitEnv ==
  /\ pc = "env"
  /\ environ = [n \in EnvNames |-> Unset]
  /\ fs = <<>>
  /\ errStream = <<>>
  /\ exitCode = Running
  /\ prevCall = NoCall
  /\ lastCall = NoCall
  /\ EscIdle
  /\ BinIdle

CallSetEnv ==
  /\ pc = "env"
  /\ \E name \in EnvNames, value \in EnvValues :
       \E accepted \in (IF ValueLen(CStr(value)) >= BUFFER_SIZE
                        THEN BOOLEAN ELSE {TRUE}) :
         LET r == SetEnv(environ, name, value, accepted)
         IN /\ environ' = r.block
            /\ lastCall' = [op |-> "SetEnv", name |-> name, value |-> value,
                            ret |-> r.ret]
  /\ UNCHANGED <<pc, fs, errStream, exitCode, prevCall, escVars, binVars>>

\* afterSet, setValue: whether the call before was a successful SetEnv of
\* the same name, and the value it was given
CallGetEnv ==
  /\ pc = "env"
  /\ \E name \in EnvNames :
       \E garbage \in (IF GetEnvironmentVariableA(environ, name,
                                                  BUFFER_SIZE).stored
                       THEN {<<>>} ELSE StackGarbage) :
         LET r == GetEnv(environ, name, garbage)
             afterSet == /\ lastCall.op = "SetEnv"
                         /\ lastCall.ret
                         /\ lastCall.name = name
         IN lastCall' = [op |-> "GetEnv", name |-> name, ret |-> r.ret,
                         assigned |-> r.assigned, value |-> r.value,
                         afterSet |-> afterSet,
                         setValue |-> IF afterSet THEN lastCall.value
                                      ELSE <<>>]
  /\ UNCHANGED <<pc, environ, fs, errStream, exitCode, prevCall, escVars,
                 binVars>>

\* a collaborator clears a variable (SetEnvironmentVariable with no value)
ClearEnv ==
  /\ pc = "env"
  /\ \E name \in EnvNames :
       /\ environ[name].set
       /\ environ' = [environ EXCEPT ![name] = Unset]
       /\ lastCall' = [op |-> "ClearEnv", name |-> name]
  /\ UNCHANGED <<pc, fs, errStream, exitCode, prevCall, escVars, binVars>>

NextEnv == CallSetEnv \/ CallGetEnv \/ ClearEnv

SpecEnv == InitEnv /\ [][NextEnv]_vars

-----------------------------------------------------------------------------
(* The launcher working on the file system *)

Paths == {"bin", "out\\tmp"}

WidePaths == {WidePath(p) : p \in Paths}

FileEntries ==
  {[kind |-> "file", attrs |-> a] :
     a \in {ARCHIVE_BIT, ARCHIVE_BIT \cup READONLY_BIT, NORMAL_BIT}}

DirEntries ==
  {[kind |-> "dir", attrs |-> a] :
     a \in {FILE_ATTRIBUTE_DIRECTORY,
            FILE_ATTRIBUTE_DIRECTORY \cup READONLY_BIT}}

InitFs ==
  /\ pc = "fs"
  /\ fs \in [WidePaths -> {NoEntry} \cup FileEntries \cup DirEntries]
  /\ environ = [n \in EnvNames |-> Unset]
  /\ errStream = <<>>
  /\ exitCode = Running
  /\ prevCall = NoCall
  /\ lastCall = NoCall
  /\ EscIdle
  /\ BinIdle

\* one call of a path function; nothing runs once the process has exited
CallPathOp(op) ==
  /\ pc = "fs"
  /\ exitCode = Running
  /\ \E path \in Paths, ok \in BOOLEAN :
       LET r == PathCall(op, path, ok, fs)
       IN /\ errStream' = errStream \o r.wrote
          /\ exitCode' = r.exit
          /\ fs' = r.fs
          /\ lastCall' = [op |-> op, path |-> path, converted |-> ok,
                          issued |-> r.issued, returned |-> r.returned,
                          ret |-> r.ret]
  /\ prevCall' = lastCall
  /\ UNCHANGED <<pc, environ, escVars, binVars>>

CallAsAbsoluteWindowsPath == CallPathOp("AsAbsoluteWindowsPath")

CallDoesFilePathExist == CallPathOp("DoesFilePathExist")

CallDoesDirectoryPathExist == CallPathOp("DoesDirectoryPathExist")

CallDeleteFileByPath == CallPathOp("DeleteFileByPath")

\* changes made to the file system by the launcher's collaborators
CreateFileAt ==
  /\ pc = "fs"
  /\ \E path \in Paths, e \in FileEntries :
       /\ fs[WidePath(path)] = NoEntry
       /\ fs' = [fs EXCEPT ![WidePath(path)] = e]
       /\ lastCall' = [op |-> "CreateFile", path |-> path]
  /\ prevCall' = lastCall
  /\ UNCHANGED <<pc, environ, errStream, exitCode, escVars, binVars>>

CreateDirectoryAt ==
  /\ pc = "fs"
  /\ \E path \in Paths, e \in DirEntries :
       /\ fs[WidePath(path)] = NoEntry
       /\ fs' = [fs EXCEPT ![WidePath(path)] = e]
       /\ lastCall' = [op |-> "CreateDirectory", path |-> path]
  /\ prevCall' = lastCall
  /\ UNCHANGED <<pc, environ, errStream, exitCode, escVars, binVars>>

RemoveDirectoryAt ==
  /\ pc = "fs"
  /\ \E path \in Paths :
       /\ fs[WidePath(path)].kind = "dir"
       /\ fs' = [fs EXCEPT ![WidePath(path)] = NoEntry]
       /\ lastCall' = [op |-> "RemoveDirectory", path |-> path]
  /\ prevCall' = lastCall
  /\ UNCHANGED <<pc, environ, errStream, exitCode, escVars, binVars>>

NextFs ==
  \/ CallAsAbsoluteWindowsPath
  \/ CallDoesFilePathExist
  \/ CallDoesDirectoryPathExist
  \/ CallDeleteFileByPath
  \/ CreateFileAt
  \/ CreateDirectoryAt
  \/ RemoveDirectoryAt

SpecFs == InitFs /\ [][NextFs]_vars

-----------------------------------------------------------------------------
(* Claims about GetEscapedArgument *)

\* C1: splitting `prog <GetEscapedArgument(x)>` by the C runtime's rules
\* yields exactly one argument after the program name, equal to x.
C1_RoundTrip == pc = "esc.split" => argv = <<argument>>

IsEscapedChar(c) == c \in {DQUOTE, BSLASH}

\* where the image of x[i] starts in the body
BodyOffset(x, i) == i + Cardinality({k \in 1..(i - 1) : IsEscapedChar(x[k])})

IsBodyOf(body, x) ==
  /\ Len(body) = BodyOffset(x, Len(x) + 1) - 1
  /\ \A i \in 1..Len(x) :
       LET o == BodyOffset(x, i)
       IN IF IsEscapedChar(x[i])
          THEN body[o] = BSLASH /\ body[o + 1] = x[i]
          ELSE body[o] = x[i]

\* C2: GetEscapedArgument(x) is Q + body + Q: body is x with each double
\* quote and each backslash preceded by a backslash and every other
\* character copied, Q is a double quote iff x contains a space (a tab does
\* not count); an argument with no space, quote or backslash is unchanged.
C2_QuotedBody ==
  pc \in {"esc.escaped", "esc.split"} =>
    LET q == IF \E i \in 1..Len(argument) : argument[i] = SPACE THEN 1 ELSE 0
        n == Len(escaped)
    IN /\ n >= 2 * q
       /\ q = 1 => escaped[1] = DQUOTE /\ escaped[n] = DQUOTE
       /\ IsBodyOf(SubSeq(escaped, q + 1, n - q), argument)
       /\ (\A i \in 1..Len(argument) :
             argument[i] \notin {SPACE, DQUOTE, BSLASH}) => escaped = argument

C2_Witness ==
  /\ pc = "esc.escaped"
  /\ \E i, j, k \in 1..Len(argument) :
       argument[i] = TAB /\ argument[j] = DQUOTE /\ argument[k] = BSLASH
  /\ \A i \in 1..Len(argument) : argument[i] # SPACE

\* C10: GetEscapedArgument is injective: distinct arguments have distinct
\* escaped texts.
C10_Injective ==
  (pc = "pair.escaped" /\ argument # other) => escaped # escapedOther

C10_Witness ==
  /\ pc = "pair.escaped"
  /\ argument # other
  /\ HasSpace(argument) /\ ~HasSpace(other)
  /\ Len(other) > 0 /\ other[1] = DQUOTE
  /\ escaped[1] = DQUOTE

-----------------------------------------------------------------------------
(* Claims about the executable extension *)

EndsWithDotExe(p) == Len(p) >= 4 /\ SubSeq(p, Len(p) - 3, Len(p)) = DotExe

\* C3: stripping the extension from GetBinaryPathWithExtension(p) gives the
\* same as stripping it from p.
C3_StripOfAdd ==
  (binOut["without"].done /\ binOut["withoutOfWith"].done) =>
    binOut["withoutOfWith"].val = binOut["without"].val

C3_Witness ==
  /\ binOut["without"].done /\ binOut["withoutOfWith"].done
  /\ binary = <<"a">> \o DotExe \o DotExe
  /\ binOut["withoutOfWith"].val = <<"a">> \o DotExe

\* C4: GetBinaryPathWithExtension(p) is p when p ends in ".exe" (case-
\* sensitive) and p + ".exe" otherwise, and applying it twice is the same as
\* applying it once.
C4_NoDoubling ==
  /\ binOut["with"].done =>
       binOut["with"].val =
         IF EndsWithDotExe(binary) THEN binary ELSE binary \o DotExe
  /\ binOut["withOfWith"].done => binOut["withOfWith"].val = binOut["with"].val

C4_Witness ==
  /\ binOut["with"].done /\ binOut["withOfWith"].done
  /\ binary = <<"a", ".", "E", "X", "E">>
  /\ binOut["withOfWith"].val = binary \o DotExe

\* C9: for a path shorter than four characters, size - 4 wraps modulo 2^64
\* to a position past the end of the string, the search reports no match,
\* GetBinaryPathWithoutExtension returns the path unchanged and
\* GetBinaryPathWithExtension returns the path followed by ".exe".
C9_ShortPath ==
  Len(binary) < 4 =>
    /\ binOut["without"].done =>
         /\ binOut["without"].pos =
              <<Limb - (4 - Len(binary)), Limb - 1, Limb - 1, Limb - 1>>
         /\ SizeLess(ToSizeT(Len(binary)), binOut["without"].pos)
         /\ binOut["without"].found = npos
         /\ binOut["without"].val = binary
    /\ binOut["with"].done => binOut["with"].val = binary \o DotExe

C9_Witness ==
  /\ Len(binary) = 3
  /\ binOut["without"].done /\ binOut["with"].done
  /\ binOut["without"].found = npos
  /\ binOut["without"].val = <<"e", "x", "e">>

-----------------------------------------------------------------------------
(* Claims about the environment *)

SetThenGet == lastCall.op = "GetEnv" /\ lastCall.afterSet

GetOfUnset == lastCall.op = "GetEnv" /\ ~environ[lastCall.name].set

\* C5 as stated: after a successful SetEnv(name, v), for every value v,
\* the next GetEnv(name) returns true with v; GetEnv of an unset name
\* returns false.
C5_RoundTripEveryValue ==
  /\ SetThenGet => lastCall.ret /\ lastCall.value = lastCall.setValue
  /\ GetOfUnset => ~lastCall.ret

\* C5 amended: after a successful SetEnv(name, v), the next GetEnv(name)
\* returns false and assigns nothing when v.c_str() is empty, and returns
\* true with v.c_str() when that is not empty and shorter than the buffer;
\* GetEnv of an unset name returns false.
C5_RoundTripNonEmpty ==
  /\ SetThenGet =>
       LET c == CStr(lastCall.setValue)
       IN /\ c = <<>> => ~lastCall.ret /\ ~lastCall.assigned
          /\ (c # <<>> /\ ValueLen(c) < BUFFER_SIZE) =>
               lastCall.ret /\ lastCall.value = c
  /\ GetOfUnset => ~lastCall.ret /\ ~lastCall.assigned

C5_Witness ==
  /\ SetThenGet
  /\ lastCall.setValue = <<<<"a", BUFFER_SIZE - 1>>>>
  /\ lastCall.ret /\ lastCall.value = lastCall.setValue

\* C6: GetEnv never returns true with an output string different from the
\* variable's stored value (a value too large for the buffer is reported
\* as absent).
C6_NeverWrongValue ==
  (lastCall.op = "GetEnv" /\ lastCall.ret) =>
    /\ environ[lastCall.name].set
    /\ lastCall.value = environ[lastCall.name].val
    /\ ValueLen(environ[lastCall.name].val) < BUFFER_SIZE

-----------------------------------------------------------------------------
(* Claims about the path functions *)

DieOutput(path) ==
  <<Written("LAUNCHER ERROR: ", ""),
    Written("Couldn't convert %s to absoulte Windows path.", path),
    Written("\n", "")>>

C7_AfterCall ==
  lastCall.op \in PathOps =>
    IF lastCall.converted
    THEN exitCode = Running /\ errStream = <<>> /\ lastCall.returned
    ELSE /\ exitCode = 1
         /\ errStream = DieOutput(lastCall.path)
         /\ lastCall.issued = <<>>
         /\ ~lastCall.returned

C7_AfterExit ==
  exitCode # Running =>
    /\ exitCode' = exitCode
    /\ errStream' = errStream
    /\ lastCall'.op \notin PathOps

\* C7: when the path conversion fails in one of the four path functions the
\* process writes "LAUNCHER ERROR: ", the message and a newline to stderr
\* and exits with code 1, issues no file-system call for that path and
\* never returns to the caller; when it succeeds nothing is written and the
\* process keeps running.
C7_FatalConversion == []C7_AfterCall /\ [][C7_AfterExit]_vars

C7_Witness ==
  /\ lastCall.op = "DeleteFileByPath"
  /\ ~lastCall.converted
  /\ exitCode = 1
  /\ fs[WidePath(lastCall.path)].kind = "file"

\* C8: for a path whose conversion succeeds DoesFilePathExist is true iff
\* the path names an existing non-directory entry and DoesDirectoryPathExist
\* iff it names an existing directory; both are false for a nonexistent
\* path, they are never true together, and right after a file is created
\* DoesFilePathExist is true and DoesDirectoryPathExist false.
C8_Classification ==
  /\ (lastCall.op = "DoesFilePathExist" /\ lastCall.converted) =>
       /\ lastCall.returned
       /\ lastCall.ret = (fs[WidePath(lastCall.path)].kind = "file")
  /\ (lastCall.op = "DoesDirectoryPathExist" /\ lastCall.converted) =>
       /\ lastCall.returned
       /\ lastCall.ret = (fs[WidePath(lastCall.path)].kind = "dir")
  /\ \A w \in DOMAIN fs :
       LET a == GetFileAttributesW(fs, w)
       IN /\ ~(IsFileAttrib(a) /\ IsDirectoryAttrib(a))
          /\ fs[w].kind = "none" => ~IsFileAttrib(a) /\ ~IsDirectoryAttrib(a)
  /\ (/\ prevCall.op = "CreateFile"
      /\ lastCall.op \in {"DoesFilePathExist", "DoesDirectoryPathExist"}
      /\ lastCall.path = prevCall.path
      /\ lastCall.converted) =>
       lastCall.ret = (lastCall.op = "DoesFilePathExist")

C8_Witness ==
  /\ prevCall.op = "RemoveDirectory"
  /\ lastCall.op = "DoesDirectoryPathExist"
  /\ lastCall.path = prevCall.path
  /\ lastCall.converted
  /\ lastCall.returned /\ ~lastCall.ret
  /\ \E w \in DOMAIN fs : fs[w].kind = "dir"

====
